---- MODULE Spec2Model ----
(***************************************************************************)
(* Model of api/youtube_transcript.py: the video-id resolver               *)
(* (extract_video_id), the transcript fallback chain (get_transcript) and  *)
(* the request boundary (handler).                                         *)
(*                                                                         *)
(* Python values are modelled as follows.                                  *)
(*   str        a sequence of one-character strings where the code looks   *)
(*              inside it (the url, the transcript text); a TLA+ string    *)
(*              where it is opaque (language codes, provider messages)     *)
(*   f-string   the sequence of its pieces                                 *)
(*   None / x   None == <<>>, Some(x) == <<x>>  (an optional value)        *)
(*   dict       a record                                                   *)
(*   exception  its message str(e), a sequence of message pieces           *)
(* The captioning provider (youtube_transcript_api) is the environment:    *)
(* what list_transcripts answers is chosen when it is called.              *)
(***************************************************************************)
EXTENDS Integers, Sequences, FiniteSets, TLC

VARIABLES
    event,                \* handler's argument: [httpMethod, body]
    pc,                   \* position in handler / get_transcript
    youtube_url,          \* body.get("youtubeUrl") / get_transcript's argument
    video_id,             \* local video_id of get_transcript (optional str)
    video_id_bound,       \* 'video_id' in locals()
    transcript_list,      \* what list_transcripts returned: the caption tracks
    lang_idx,             \* index of the for loop over ['en', 'en-US', 'en-GB']
    transcript,           \* local transcript (optional list of segments)
    transcript_language,  \* local transcript_language (optional str)
    result,               \* what get_transcript returned (optional dict)
    response,             \* what handler returned (optional dict)
    calls,                \* the calls made so far, in order
    raised                \* the exceptions raised so far, in order

vars == <<event, pc, youtube_url, video_id, video_id_bound, transcript_list,
          lang_idx, transcript, transcript_language, result, response, calls, raised>>

----------------------------------------------------------------------------
(* Optional values and Python truthiness. *)

None == <<>>

Some(x) == <<x>>

\* a str is falsy exactly when it is empty
StrVal(s) == [t |-> "str", s |-> s, n |-> 0]

IntVal(n) == [t |-> "int", s |-> <<>>, n |-> n]

NoneVal == [t |-> "None", s |-> <<>>, n |-> 0]

\* `not v` for a JSON-decoded value v
PyFalsy(v) ==
    \/ v.t = "None"
    \/ v.t = "str" /\ v.s = <<>>
    \/ v.t = "int" /\ v.n = 0

----------------------------------------------------------------------------
(* extract_video_id *)

\* the character class [a-zA-Z0-9_-]
IdChars ==
    { "a","b","c","d","e","f","g","h","i","j","k","l","m",
      "n","o","p","q","r","s","t","u","v","w","x","y","z",
      "A","B","C","D","E","F","G","H","I","J","K","L","M",
      "N","O","P","Q","R","S","T","U","V","W","X","Y","Z",
      "0","1","2","3","4","5","6","7","8","9","_","-" }

\* the repetition count {11} of both patterns
IdLen == 11

WatchLiteral ==
    <<"y","o","u","t","u","b","e",".","c","o","m","/","w","a","t","c","h","?","v","=">>

ShortLiteral == <<"y","o","u","t","u",".","b","e","/">>

EmbedLiteral ==
    <<"y","o","u","t","u","b","e",".","c","o","m","/","e","m","b","e","d","/">>

\* the alternation (?:youtube\.com\/watch\?v=|youtu\.be\/|youtube\.com\/embed\/)
UrlLiterals == <<WatchLiteral, ShortLiteral, EmbedLiteral>>

\* lit occurs in s starting at position i
LiteralAt(s, i, lit) ==
    /\ i + Len(lit) - 1 <= Len(s)
    /\ \A k \in 1..Len(lit) : s[i + k - 1] = lit[k]

\* [a-zA-Z0-9_-]{11} matches s at position i
IdAt(s, i) ==
    /\ i + IdLen - 1 <= Len(s)
    /\ \A k \in 0..(IdLen - 1) : s[i + k] \in IdChars

\* the first pattern matches s with the non-capturing group starting at i
UrlMatchAt(s, i) ==
    \E a \in 1..Len(UrlLiterals) :
        LiteralAt(s, i, UrlLiterals[a]) /\ IdAt(s, i + Len(UrlLiterals[a]))

\* group(1) of the first pattern's match at i
UrlGroupAt(s, i) ==
    LET a == CHOOSE b \in 1..Len(UrlLiterals) :
                 LiteralAt(s, i, UrlLiterals[b]) /\ IdAt(s, i + Len(UrlLiterals[b]))
        start == i + Len(UrlLiterals[a])
    IN  SubSeq(s, start, start + IdLen - 1)

\* re.search of ^[a-zA-Z0-9_-]{11}$ : ^ matches at the start of the string,
\* $ at the end of the string and also just before a newline that ends it
BareMatch(s) ==
    /\ IdAt(s, 1)
    /\ \/ Len(s) = IdLen
       \/ Len(s) = IdLen + 1 /\ s[IdLen + 1] = "\n"

\* extract_video_id(url) for a str: the first pattern that matches decides;
\* re.search takes the leftmost match; group(1) if the pattern has a group,
\* else group(0)
extract_video_id(url) ==
    IF \E i \in 1..Len(url) : UrlMatchAt(url, i)
    THEN LET i == CHOOSE j \in 1..Len(url) :
                      UrlMatchAt(url, j) /\ \A k \in 1..(j - 1) : ~UrlMatchAt(url, k)
         IN  Some(UrlGroupAt(url, i))
    ELSE IF BareMatch(url)
         THEN Some(SubSeq(url, 1, IdLen))
         ELSE None

----------------------------------------------------------------------------
(* The captioning provider: caption tracks and what fetching them gives. *)

\* most tracks a video has in the model
MaxTracks == 2

\* for lang_code in ['en', 'en-US', 'en-GB']
PreferredLangs == <<"en", "en-US", "en-GB">>

\* language codes a track can carry
LanguageCodes == {"en", "en-US", "en-GB", "fr"}

\* caption text "hi yo" and "ok"
TextHiYo == <<"h", "i", " ", "y", "o">>

TextOk == <<"o", "k">>

\* what a successful fetch can give: a list of segments, possibly empty
Transcripts == { <<>>, <<[text |-> TextHiYo], [text |-> TextOk]>> }

\* messages of the exceptions the provider raises
FetchErrors == {"CouldNotRetrieveTranscript", "RequestBlocked"}

ListErrors == {"TranscriptsDisabled", "VideoUnavailable"}

FetchOk(segs) == [ok |-> TRUE, segs |-> segs, err |-> ""]

FetchErr(e) == [ok |-> FALSE, segs |-> <<>>, err |-> e]

FetchOutcomes == {FetchOk(t) : t \in Transcripts} \cup {FetchErr(e) : e \in FetchErrors}

Tracks == [language_code : LanguageCodes, is_generated : BOOLEAN, fetch : FetchOutcomes]

\* the enumerations list(transcript_list) can give: at most one manual and one
\* generated track per language code
TrackLists ==
    { ts \in UNION { [1..n -> Tracks] : n \in 0..MaxTracks } :
        \A i, j \in 1..Len(ts) :
            (/\ ts[i].language_code = ts[j].language_code
             /\ ts[i].is_generated = ts[j].is_generated) => i = j }

\* transcript_list.find_manually_created_transcript([lang]): the index of the
\* track found, 0 when the lookup raises NoTranscriptFound
find_manually_created_transcript(ts, lang) ==
    LET found == { i \in 1..Len(ts) :
                     ~ts[i].is_generated /\ ts[i].language_code = lang }
    IN  IF found = {} THEN 0 ELSE CHOOSE i \in found : \A j \in found : i <= j

\* transcript_list.find_generated_transcript([lang])
find_generated_transcript(ts, lang) ==
    LET found == { i \in 1..Len(ts) :
                     ts[i].is_generated /\ ts[i].language_code = lang }
    IN  IF found = {} THEN 0 ELSE CHOOSE i \in found : \A j \in found : i <= j

----------------------------------------------------------------------------
(* Formatting. *)

RECURSIVE JoinLines(_)
\* TextFormatter().format_transcript: '\n'.join(line['text'] for line in transcript)
JoinLines(segs) ==
    IF segs = <<>> THEN <<>>
    ELSE IF Len(segs) = 1 THEN segs[1].text
    ELSE segs[1].text \o <<"\n">> \o JoinLines(Tail(segs))

format_transcript(segs) == JoinLines(segs)

Whitespace == {" ", "\n", "\t"}

\* len(text.split()): the number of maximal runs of non-whitespace characters
WordCount(text) ==
    Cardinality({ i \in 1..Len(text) :
                    /\ text[i] \notin Whitespace
                    /\ (i = 1 \/ text[i - 1] \in Whitespace) })

----------------------------------------------------------------------------
(* The dicts get_transcript returns. *)

InvalidMessage == <<"Invalid YouTube URL or video ID">>

NoTranscriptsMessage == <<"No transcripts available">>

CouldNotFetchPrefix == <<"Could not fetch transcript: ">>

TypeErrorMessage == <<"expected string or bytes-like object">>

\* a failure dict: lines 26-30, 71-75, 98-102
FailureResult(msg, vid) == [success |-> FALSE, error |-> msg, videoId |-> vid]

\* a variant of CouldNotFetchResult that returns the raised message bare
CouldNotFetchResultUnprefixed(msg, vid) == FailureResult(msg, vid)

\* a variant of CouldNotFetchResult that leaves the video id out
CouldNotFetchResultNoId(msg, vid) == FailureResult(CouldNotFetchPrefix \o msg, None)

\* the dict of lines 71-75: the error prefixed
CouldNotFetchResult(msg, vid) == FailureResult(CouldNotFetchPrefix \o msg, vid)

\* a variant of OuterExceptResult that wraps the message like the inner except
OuterExceptResultPrefixed(msg, vid) == FailureResult(CouldNotFetchPrefix \o msg, vid)

\* the dict of lines 98-102: the outer except, str(e) unmodified
OuterExceptResult(msg, vid) == FailureResult(msg, vid)

\* a variant of SuccessResult that also carries an error field
SuccessResultWithError(segs, vid, lang) ==
    [success |-> TRUE,
     transcript |-> format_transcript(segs),
     videoTitle |-> <<"YouTube Video ">> \o vid[1],
     videoId |-> vid,
     language |-> lang,
     wordCount |-> WordCount(format_transcript(segs)),
     error |-> None]

\* the success dict: lines 78-93
SuccessResult(segs, vid, lang) ==
    LET formatted_text == format_transcript(segs)
    IN  [success |-> TRUE,
         transcript |-> formatted_text,
         videoTitle |-> <<"YouTube Video ">> \o vid[1],
         videoId |-> vid,
         language |-> lang,
         wordCount |-> WordCount(formatted_text)]

\* a call, as recorded in calls
Call(op, lang, track) == [op |-> op, lang |-> lang, track |-> track]

\* an exception, as recorded in raised
Raise(site, msg) == [site |-> site, msg |-> msg]

----------------------------------------------------------------------------
(* The requests the model sends. *)

\* an 11-character video id
SampleId == <<"d", "Q", "w", "4", "w", "9", "W", "g", "X", "c", "Q">>

\* the values of the youtubeUrl field that are strings
HandlerUrls ==
    { <<>>,
      SampleId,
      WatchLiteral \o SampleId,
      SampleId \o <<"\n">>,
      SampleId \o <<" ">>,
      <<"n", "o", "p", "e">> }

\* the values the youtubeUrl field can carry once the body is decoded
FieldValues == {NoneVal, IntVal(0), IntVal(7)} \cup {StrVal(u) : u \in HandlerUrls}

\* event["body"]: no body key (the default "{}" applies), text that is not
\* JSON, JSON null, a JSON array, a JSON object without the field, a JSON
\* object with the field
Bodies ==
    {[kind |-> k, field |-> NoneVal] : k \in {"absent", "invalid", "null", "array", "object"}}
    \cup {[kind |-> "object_with_field", field |-> v] : v \in FieldValues}

HttpMethods == {"POST", "OPTIONS", "GET"}

Events == [httpMethod : HttpMethods, body : Bodies]

----------------------------------------------------------------------------
(* The dicts handler returns. *)

CorsHeaders == "cors"

JsonHeaders == "cors+json"

Response(status, headers, body) ==
    [statusCode |-> status, headers |-> headers, body |-> body]

PreflightResponse == Response(200, CorsHeaders, [message |-> <<"CORS preflight">>])

MethodNotAllowedResponse == Response(405, JsonHeaders, [error |-> <<"Method not allowed">>])

FieldRequiredResponse == Response(400, JsonHeaders, [error |-> <<"youtubeUrl is required">>])

\* a variant of InternalErrorResponse that answers 400
InternalErrorResponseAs400 == Response(400, JsonHeaders, [error |-> <<"Internal server error">>])

InternalErrorResponse == Response(500, JsonHeaders, [error |-> <<"Internal server error">>])

\* status_code = 200 if result.get("success") else 400
ResultResponse(res) == Response(IF res.success THEN 200 ELSE 400, JsonHeaders, res)

----------------------------------------------------------------------------
(* handler and get_transcript, step by step. *)

Init ==
    /\ event \in Events
    /\ pc = "handler"
    /\ youtube_url = NoneVal
    /\ video_id = None
    /\ video_id_bound = FALSE
    /\ transcript_list = <<>>
    /\ lang_idx = 1
    /\ transcript = None
    /\ transcript_language = None
    /\ result = None
    /\ response = None
    /\ calls = <<>>
    /\ raised = <<>>

\* if event.get("httpMethod") == "OPTIONS": return the preflight envelope
HandleOptions ==
    /\ pc = "handler"
    /\ event.httpMethod = "OPTIONS"
    /\ response' = Some(PreflightResponse)
    /\ pc' = "done"
    /\ UNCHANGED <<event, youtube_url, video_id, video_id_bound, transcript_list,
                   lang_idx, transcript, transcript_language, result, calls, raised>>

\* if event.get("httpMethod") != "POST": return 405
HandleMethodNotAllowed ==
    /\ pc = "handler"
    /\ event.httpMethod # "OPTIONS"
    /\ event.httpMethod # "POST"
    /\ response' = Some(MethodNotAllowedResponse)
    /\ pc' = "done"
    /\ UNCHANGED <<event, youtube_url, video_id, video_id_bound, transcript_list,
                   lang_idx, transcript, transcript_language, result, calls, raised>>

\* json.loads(event.get("body", "{}")) raises on text that is not JSON, and
\* body.get raises AttributeError when the JSON value is no object; the except
\* of handler answers 500
ParseBodyRaises ==
    /\ pc = "handler"
    /\ event.httpMethod = "POST"
    /\ event.body.kind \in {"invalid", "null", "array"}
    /\ raised' = Append(raised,
                    IF event.body.kind = "invalid"
                    THEN Raise("json.loads", <<"JSONDecodeError">>)
                    ELSE Raise("body.get", <<"AttributeError">>))
    /\ response' = Some(InternalErrorResponse)
    /\ pc' = "done"
    /\ UNCHANGED <<event, youtube_url, video_id, video_id_bound, transcript_list,
                   lang_idx, transcript, transcript_language, result, calls>>

\* body.get("youtubeUrl") of a decoded object
BodyField(body) ==
    IF body.kind = "object_with_field" THEN body.field ELSE NoneVal

\* if not youtube_url: return 400, youtubeUrl is required
ParseBodyMissing ==
    /\ pc = "handler"
    /\ event.httpMethod = "POST"
    /\ event.body.kind \in {"absent", "object", "object_with_field"}
    /\ PyFalsy(BodyField(event.body))
    /\ youtube_url' = BodyField(event.body)
    /\ response' = Some(FieldRequiredResponse)
    /\ pc' = "done"
    /\ UNCHANGED <<event, video_id, video_id_bound, transcript_list, lang_idx,
                   transcript, transcript_language, result, calls, raised>>

\* result = get_transcript(youtube_url): the call is made
ParseBodyOk ==
    /\ pc = "handler"
    /\ event.httpMethod = "POST"
    /\ event.body.kind \in {"absent", "object", "object_with_field"}
    /\ ~PyFalsy(BodyField(event.body))
    /\ youtube_url' = BodyField(event.body)
    /\ calls' = Append(calls, Call("get_transcript", "", 0))
    /\ pc' = "extract"
    /\ UNCHANGED <<event, video_id, video_id_bound, transcript_list, lang_idx,
                   transcript, transcript_language, result, response, raised>>

\* a variant of NotVideoId that misses None
NotVideoIdEmptyOnly(v) == v = Some(<<>>)

\* `not video_id`: None is falsy, and so is an empty str
NotVideoId(v) == IF v = None THEN TRUE ELSE v[1] = <<>>

\* video_id = extract_video_id(youtube_url); if not video_id: return the
\* invalid-input dict. re.search raises TypeError on a value that is no str,
\* before video_id is bound; the outer except of get_transcript returns it
ExtractVideoId ==
    /\ pc = "extract"
    /\ calls' = Append(calls, Call("extract_video_id", "", 0))
    /\ IF youtube_url.t # "str"
       THEN /\ raised' = Append(raised, Raise("extract_video_id", TypeErrorMessage))
            /\ result' = Some(OuterExceptResult(TypeErrorMessage, None))
            /\ pc' = "respond"
            /\ UNCHANGED <<video_id, video_id_bound>>
       ELSE /\ video_id' = extract_video_id(youtube_url.s)
            /\ video_id_bound' = TRUE
            /\ UNCHANGED raised
            /\ IF NotVideoId(video_id')
               THEN /\ result' = Some(FailureResult(InvalidMessage, None))
                    /\ pc' = "respond"
               ELSE /\ result' = result
                    /\ pc' = "list"
    /\ UNCHANGED <<event, youtube_url, transcript_list, lang_idx, transcript,
                   transcript_language, response>>

\* transcript_list = YouTubeTranscriptApi.list_transcripts(video_id) raises:
\* the outer except of get_transcript returns str(e) with the bound video_id
ListTranscriptsRaises ==
    /\ pc = "list"
    /\ \E e \in ListErrors :
        /\ calls' = Append(calls, Call("list_transcripts", "", 0))
        /\ raised' = Append(raised, Raise("list_transcripts", <<e>>))
        /\ result' = Some(OuterExceptResult(<<e>>, IF video_id_bound THEN video_id ELSE None))
    /\ pc' = "respond"
    /\ UNCHANGED <<event, youtube_url, video_id, video_id_bound, transcript_list,
                   lang_idx, transcript, transcript_language, response>>

\* list_transcripts returns; transcript = None; transcript_language = None
ListTranscriptsOk ==
    /\ pc = "list"
    /\ \E ts \in TrackLists : transcript_list' = ts
    /\ calls' = Append(calls, Call("list_transcripts", "", 0))
    /\ transcript' = None
    /\ transcript_language' = None
    /\ lang_idx' = 1
    /\ pc' = "manual"
    /\ UNCHANGED <<event, youtube_url, video_id, video_id_bound, result, response, raised>>

\* one iteration of: for lang_code in ['en', 'en-US', 'en-GB']:
\*     try: find_manually_created_transcript([lang_code]); fetch(); break
\*     except: continue
ManualAttempt ==
    /\ pc = "manual"
    /\ LET lang_code == PreferredLangs[lang_idx]
           i == find_manually_created_transcript(transcript_list, lang_code)
           find == Call("find_manually_created_transcript", lang_code, 0)
           continue == IF lang_idx < Len(PreferredLangs) THEN "manual" ELSE "after_manual"
       IN  IF i = 0
           THEN /\ calls' = Append(calls, find)
                /\ raised' = Append(raised,
                                Raise("find_manually_created_transcript", <<"NoTranscriptFound">>))
                /\ lang_idx' = lang_idx + 1
                /\ pc' = continue
                /\ UNCHANGED <<transcript, transcript_language>>
           ELSE /\ calls' = calls \o <<find, Call("fetch", lang_code, i)>>
                /\ IF transcript_list[i].fetch.ok
                   THEN /\ transcript' = Some(transcript_list[i].fetch.segs)
                        /\ transcript_language' = Some(lang_code)
                        /\ pc' = "after_manual"
                        /\ UNCHANGED <<lang_idx, raised>>
                   ELSE /\ raised' = Append(raised,
                                        Raise("fetch", <<transcript_list[i].fetch.err>>))
                        /\ lang_idx' = lang_idx + 1
                        /\ pc' = continue
                        /\ UNCHANGED <<transcript, transcript_language>>
    /\ UNCHANGED <<event, youtube_url, video_id, video_id_bound, transcript_list,
                   result, response>>

\* `not transcript`: None is falsy, and so is a list with no segment
NotTranscript(t) == IF t = None THEN TRUE ELSE t[1] = <<>>

\* if not transcript: is false, the auto-generated and last-resort steps are skipped
SkipAuto ==
    /\ pc = "after_manual"
    /\ ~NotTranscript(transcript)
    /\ pc' = "format"
    /\ UNCHANGED <<event, youtube_url, video_id, video_id_bound, transcript_list, lang_idx,
                   transcript, transcript_language, result, response, calls, raised>>

\* if not transcript: try: find_generated_transcript(['en']); fetch()
\*                    except: go on to the last resort
AutoAttempt ==
    /\ pc = "after_manual"
    /\ NotTranscript(transcript)
    /\ LET i == find_generated_transcript(transcript_list, "en")
           find == Call("find_generated_transcript", "en", 0)
       IN  IF i = 0
           THEN /\ calls' = Append(calls, find)
                /\ raised' = Append(raised,
                                Raise("find_generated_transcript", <<"NoTranscriptFound">>))
                /\ pc' = "last_resort"
                /\ UNCHANGED <<transcript, transcript_language>>
           ELSE /\ calls' = calls \o <<find, Call("fetch", "en", i)>>
                /\ IF transcript_list[i].fetch.ok
                   THEN /\ transcript' = Some(transcript_list[i].fetch.segs)
                        /\ transcript_language' = Some("en (auto-generated)")
                        /\ pc' = "format"
                        /\ UNCHANGED raised
                   ELSE /\ raised' = Append(raised,
                                        Raise("fetch", <<transcript_list[i].fetch.err>>))
                        /\ pc' = "last_resort"
                        /\ UNCHANGED <<transcript, transcript_language>>
    /\ UNCHANGED <<event, youtube_url, video_id, video_id_bound, transcript_list, lang_idx,
                   result, response>>

\* available_transcripts = list(transcript_list); fetch the first one, or
\* raise Exception("No transcripts available"); what is raised here reaches
\* except Exception as transcript_error, which returns the prefixed failure
LastResort ==
    /\ pc = "last_resort"
    /\ LET enumerate == Call("list", "", 0)
       IN  IF transcript_list # <<>>
           THEN /\ calls' = calls \o
                        <<enumerate, Call("fetch", transcript_list[1].language_code, 1)>>
                /\ IF transcript_list[1].fetch.ok
                   THEN /\ transcript' = Some(transcript_list[1].fetch.segs)
                        /\ transcript_language' = Some(transcript_list[1].language_code)
                        /\ pc' = "format"
                        /\ UNCHANGED <<result, raised>>
                   ELSE /\ raised' = Append(raised,
                                        Raise("fetch", <<transcript_list[1].fetch.err>>))
                        /\ result' = Some(CouldNotFetchResult(
                                            <<transcript_list[1].fetch.err>>, video_id))
                        /\ pc' = "respond"
                        /\ UNCHANGED <<transcript, transcript_language>>
           ELSE /\ calls' = Append(calls, enumerate)
                /\ raised' = Append(raised, Raise("get_transcript", NoTranscriptsMessage))
                /\ result' = Some(CouldNotFetchResult(NoTranscriptsMessage, video_id))
                /\ pc' = "respond"
                /\ UNCHANGED <<transcript, transcript_language>>
    /\ UNCHANGED <<event, youtube_url, video_id, video_id_bound, transcript_list, lang_idx,
                   response>>

\* formatter.format_transcript(transcript) and the success dict
FormatResult ==
    /\ pc = "format"
    /\ calls' = Append(calls, Call("format_transcript", "", 0))
    /\ result' = Some(SuccessResult(transcript[1], video_id, transcript_language))
    /\ pc' = "respond"
    /\ UNCHANGED <<event, youtube_url, video_id, video_id_bound, transcript_list, lang_idx,
                   transcript, transcript_language, response, raised>>

\* handler turns the dict get_transcript returned into the response
Respond ==
    /\ pc = "respond"
    /\ response' = Some(ResultResponse(result[1]))
    /\ pc' = "done"
    /\ UNCHANGED <<event, youtube_url, video_id, video_id_bound, transcript_list, lang_idx,
                   transcript, transcript_language, result, calls, raised>>

Next ==
    \/ HandleOptions
    \/ HandleMethodNotAllowed
    \/ ParseBodyRaises
    \/ ParseBodyMissing
    \/ ParseBodyOk
    \/ ExtractVideoId
    \/ ListTranscriptsRaises
    \/ ListTranscriptsOk
    \/ ManualAttempt
    \/ SkipAuto
    \/ AutoAttempt
    \/ LastResort
    \/ FormatResult
    \/ Respond

Spec == Init /\ [][Next]_vars

----------------------------------------------------------------------------
(* extract_video_id on its own, over strings built around a run of id characters. *)

\* longest run of characters put before and after the id characters
MaxPad == 1

PadChars == {"\n", " ", "x", "&"}

Pads == UNION { [1..n -> PadChars] : n \in 0..MaxPad }

\* n characters of the id alphabet
IdRun(n) ==
    LET cycle == SampleId \o <<"_", "-">>
    IN  [i \in 1..n |-> cycle[((i - 1) % Len(cycle)) + 1]]

ResolverInputs ==
    { p \o l \o IdRun(n) \o q :
        p \in Pads,
        l \in {<<>>, WatchLiteral, ShortLiteral, EmbedLiteral},
        n \in 0..(IdLen + 1),
        q \in Pads }

InitResolver ==
    /\ event = [httpMethod |-> "POST", body |-> [kind |-> "absent", field |-> NoneVal]]
    /\ pc = "resolver"
    /\ youtube_url \in {StrVal(u) : u \in ResolverInputs}
    /\ video_id = None
    /\ video_id_bound = FALSE
    /\ transcript_list = <<>>
    /\ lang_idx = 1
    /\ transcript = None
    /\ transcript_language = None
    /\ result = None
    /\ response = None
    /\ calls = <<>>
    /\ raised = <<>>

\* video_id = extract_video_id(youtube_url)
Resolve ==
    /\ pc = "resolver"
    /\ video_id' = extract_video_id(youtube_url.s)
    /\ video_id_bound' = TRUE
    /\ calls' = Append(calls, Call("extract_video_id", "", 0))
    /\ pc' = "resolved"
    /\ UNCHANGED <<event, youtube_url, transcript_list, lang_idx, transcript,
                   transcript_language, result, response, raised>>

NextResolver == Resolve

SpecResolver == InitResolver /\ [][NextResolver]_vars

----------------------------------------------------------------------------
(* What the properties below speak about. *)

Done == pc = "done"

Returned == result # None

ProviderOps ==
    {"list_transcripts", "find_manually_created_transcript", "find_generated_transcript",
     "list", "fetch"}

Called(op) == \E i \in 1..Len(calls) : calls[i].op = op

CountCalls(op) == Cardinality({ i \in 1..Len(calls) : calls[i].op = op })

CountFetches(track) ==
    Cardinality({ i \in 1..Len(calls) : calls[i].op = "fetch" /\ calls[i].track = track })

RaisedAt(site) == \E i \in 1..Len(raised) : raised[i].site = site

\* the listing call was made and returned
ListingSucceeded == Called("list_transcripts") /\ ~RaisedAt("list_transcripts")

\* the fallback options in priority order: manual en, manual en-US, manual
\* en-GB, auto-generated en, first enumerated
Options == 1..5

\* the track option k looks up, 0 when there is none
OptionTrack(ts, k) ==
    IF k <= 3 THEN find_manually_created_transcript(ts, PreferredLangs[k])
    ELSE IF k = 4 THEN find_generated_transcript(ts, "en")
    ELSE IF ts # <<>> THEN 1 ELSE 0

\* the language tag the result carries when option k is the one selected
OptionTag(ts, k) ==
    IF k <= 3 THEN PreferredLangs[k]
    ELSE IF k = 4 THEN "en (auto-generated)"
    ELSE ts[1].language_code

\* option k yields a fetchable transcript
Yields(ts, k) ==
    IF OptionTrack(ts, k) = 0 THEN FALSE ELSE ts[OptionTrack(ts, k)].fetch.ok

\* k is the first option in priority order that yields a transcript
FirstYielding(ts, k) == Yields(ts, k) /\ \A j \in 1..(k - 1) : ~Yields(ts, j)

----------------------------------------------------------------------------
(* C1: after a successful listing, a success result carries the language tag
   and the text of the first option, in the order manual en, manual en-US,
   manual en-GB, auto-generated en, first enumerated, that yields a fetchable
   transcript; once a manual language has yielded a fetched transcript no
   later option is attempted. *)
C1_PrioritySelection ==
    (ListingSucceeded /\ Returned) =>
        (result[1].success =>
            \E k \in Options :
                /\ FirstYielding(transcript_list, k)
                /\ result[1].language = Some(OptionTag(transcript_list, k))
                /\ result[1].transcript =
                       format_transcript(
                           transcript_list[OptionTrack(transcript_list, k)].fetch.segs)
                /\ k <= 3 =>
                       /\ ~Called("find_generated_transcript")
                       /\ ~Called("list")
                       /\ CountCalls("find_manually_created_transcript") = k)

----------------------------------------------------------------------------
(* C5: a POST whose youtubeUrl field is empty or absent (no body, an object
   without the field, the field null or the empty string, or a JSON value
   that carries no such field) is answered 400 with the fixed payload
   "youtubeUrl is required", and get_transcript and the provider are never
   invoked. *)
C5_MissingFieldAlways400 ==
    (/\ Done
     /\ event.httpMethod = "POST"
     /\ \/ event.body.kind \in {"absent", "object", "null", "array"}
        \/ /\ event.body.kind = "object_with_field"
           /\ event.body.field \in {NoneVal, StrVal(<<>>)})
    => (response = Some(FieldRequiredResponse) /\ calls = <<>>)

----------------------------------------------------------------------------
(* C7: an input with no URL shape is accepted only when the entire string is
   exactly 11 characters of [a-zA-Z0-9_-], and is then returned unchanged;
   every other input with no URL shape, an id followed by a newline
   included, yields None. *)
C7_BareIdExact ==
    (/\ pc = "resolved"
     /\ ~\E i \in 1..Len(youtube_url.s) : UrlMatchAt(youtube_url.s, i))
    => IF /\ Len(youtube_url.s) = IdLen
          /\ \A i \in 1..Len(youtube_url.s) : youtube_url.s[i] \in IdChars
       THEN video_id = Some(youtube_url.s)
       ELSE video_id = None

----------------------------------------------------------------------------
(* C9: within one get_transcript invocation list_transcripts is called at
   most once and no caption track is fetched more than once. *)
C9_NoProviderCallRepeated ==
    /\ CountCalls("list_transcripts") <= 1
    /\ \A t \in 1..Len(transcript_list) : CountFetches(t) <= 1

----------------------------------------------------------------------------
(* C2 as stated: once the listing has succeeded, no error raised while
   looking up or fetching in the manual, auto-generated and first-enumerated
   steps is surfaced in the result, and a failure result is returned only
   when every fallback option failed to yield a transcript. *)
C2_FallbackErrorsNeverSurfaced ==
    (ListingSucceeded /\ Returned /\ ~result[1].success) =>
        /\ \A k \in Options : ~Yields(transcript_list, k)
        /\ \A i \in 1..Len(raised) :
               raised[i].site \in {"find_manually_created_transcript",
                                   "find_generated_transcript", "fetch"}
               => /\ result[1].error # raised[i].msg
                  /\ result[1].error # CouldNotFetchPrefix \o raised[i].msg

(* C2 amended: once the listing has succeeded, errors of the manual and
   auto-generated steps never decide the result; a failure result is returned
   only when the last-resort step fails, that is the auto-generated option
   yields nothing and the enumeration is empty or the fetch of its first
   track raises, and the failure then carries "Could not fetch transcript: "
   followed by "No transcripts available" or by that fetch's own message. *)
C2_OnlyLastResortFailureSurfaces ==
    (ListingSucceeded /\ Returned) =>
        IF result[1].success
        THEN "error" \notin DOMAIN result[1]
        ELSE /\ ~Yields(transcript_list, 4)
             /\ ~Yields(transcript_list, 5)
             /\ result[1].error =
                    CouldNotFetchPrefix \o
                        (IF transcript_list = <<>>
                         THEN NoTranscriptsMessage
                         ELSE <<transcript_list[1].fetch.err>>)

\* a failure is returned after a manual fetch and the auto-generated fetch
\* raised and were recovered, and the first enumerated fetch raised too
C2_Witness ==
    /\ Done
    /\ ListingSucceeded
    /\ ~result[1].success
    /\ Len(transcript_list) >= 2
    /\ \E i, j \in 1..Len(calls) :
           /\ i < j
           /\ calls[i].op = "fetch" /\ calls[i].track # 1
           /\ calls[j].op = "fetch" /\ calls[j].track = 1
    /\ result[1].error = CouldNotFetchPrefix \o <<transcript_list[1].fetch.err>>

----------------------------------------------------------------------------
(* C3 as stated: when the listing succeeds and the enumeration is empty the
   result is a failure whose error message is "No transcripts available",
   with videoId the resolved id. *)
C3_EmptyEnumerationMessage ==
    (ListingSucceeded /\ transcript_list = <<>> /\ Returned) =>
        result[1] = FailureResult(NoTranscriptsMessage, video_id)

(* C3 amended: when the listing succeeds and the enumeration is empty the
   result is a failure whose error message is "Could not fetch transcript: No
   transcripts available", with videoId the resolved id, and handler answers
   it with 400. *)
C3_EmptyEnumerationPrefixedMessage ==
    (ListingSucceeded /\ transcript_list = <<>>) =>
        /\ Returned =>
               /\ result[1] = [success |-> FALSE,
                               error |-> <<"Could not fetch transcript: ",
                                           "No transcripts available">>,
                               videoId |-> video_id]
               /\ video_id = extract_video_id(youtube_url.s)
               /\ video_id # None
        /\ Done => (Returned /\ response[1].statusCode = 400 /\ response[1].body = result[1])

\* the run has ended on an empty enumeration
C3_Witness ==
    /\ Done
    /\ ListingSucceeded
    /\ transcript_list = <<>>
    /\ Called("list")

----------------------------------------------------------------------------
(* C4 as stated: any exception raised in request parsing or in the pipeline
   (id resolution, provider listing) during a POST is answered 500 with the
   generic body, and its message appears in no response body. *)
C4_EveryExceptionAnswered500 ==
    (/\ Done
     /\ event.httpMethod = "POST"
     /\ \E i \in 1..Len(raised) :
            raised[i].site \in {"json.loads", "body.get", "extract_video_id",
                                "list_transcripts"})
    => response = Some(InternalErrorResponse)

(* C4 amended: an exception raised in request parsing during a POST
   (json.loads on a body that is not JSON, body.get on a JSON value that is
   no object) is answered 500 with the generic body and its message appears
   nowhere in the response; 500 is answered in no other case. An exception
   raised inside get_transcript (id resolution of a value that is no str,
   provider listing) never reaches handler: get_transcript returns a failure
   dict carrying the exception's message, which handler answers with 400. *)
C4_ParsingExceptionsAnswered500 ==
    (Done /\ event.httpMethod = "POST") =>
        /\ (RaisedAt("json.loads") \/ RaisedAt("body.get")) =>
               /\ response = Some(InternalErrorResponse)
               /\ response[1].statusCode = 500
               /\ response[1].body = [error |-> <<"Internal server error">>]
               /\ \A i \in 1..Len(raised) : response[1].body.error # raised[i].msg
               /\ calls = <<>>
        /\ response[1].statusCode = 500 =>
               (RaisedAt("json.loads") \/ RaisedAt("body.get"))
        /\ \A i \in 1..Len(raised) :
               raised[i].site \in {"extract_video_id", "list_transcripts"} =>
                   /\ response[1].statusCode = 400
                   /\ response[1].body.success = FALSE
                   /\ response[1].body.error = raised[i].msg

\* a POST whose body is no JSON object has been answered
C4_Witness ==
    /\ Done
    /\ event.httpMethod = "POST"
    /\ RaisedAt("body.get")
    /\ response[1].statusCode = 500

----------------------------------------------------------------------------
(* C6: list_transcripts is called only for a POST whose body carries a
   non-empty youtubeUrl for which extract_video_id returned an id; when
   extract_video_id returns None the result is the failure "Invalid YouTube
   URL or video ID" with videoId null and the provider is not called; a
   method other than POST and OPTIONS is answered 405 with nothing of the
   pipeline invoked. *)
C6_ProviderOnlyAfterValidation ==
    /\ Called("list_transcripts") =>
           /\ event.httpMethod = "POST"
           /\ event.body.kind = "object_with_field"
           /\ ~PyFalsy(event.body.field)
           /\ event.body.field.t = "str"
           /\ extract_video_id(event.body.field.s) # None
           /\ video_id = extract_video_id(event.body.field.s)
    /\ (Called("extract_video_id") /\ youtube_url.t = "str"
            /\ extract_video_id(youtube_url.s) = None) =>
           /\ result = Some([success |-> FALSE,
                             error |-> <<"Invalid YouTube URL or video ID">>,
                             videoId |-> None])
           /\ \A i \in 1..Len(calls) : calls[i].op \notin ProviderOps
    /\ (Done /\ event.httpMethod \notin {"POST", "OPTIONS"}) =>
           /\ response[1].statusCode = 405
           /\ calls = <<>>
           /\ result = None

\* an unrecognised string has been answered without the provider
C6_Witness ==
    /\ Done
    /\ Called("extract_video_id")
    /\ youtube_url.t = "str"
    /\ video_id = None
    /\ response[1].statusCode = 400

----------------------------------------------------------------------------
(* C8: when list_transcripts raises, no lookup, enumeration or fetch is
   attempted afterwards and the result is a failure whose error is the
   provider's message unmodified and whose videoId is the resolved id. *)
C8_ListingFailureShortCircuits ==
    RaisedAt("list_transcripts") =>
        /\ \A i \in 1..Len(calls) :
               calls[i].op \notin {"find_manually_created_transcript",
                                   "find_generated_transcript", "list", "fetch",
                                   "format_transcript"}
        /\ CountCalls("list_transcripts") = 1
        /\ Returned
        /\ result[1].success = FALSE
        /\ \E i \in 1..Len(raised) :
               /\ raised[i].site = "list_transcripts"
               /\ result[1].error = raised[i].msg
        /\ result[1].error \in {<<e>> : e \in ListErrors}
        /\ result[1].videoId = extract_video_id(youtube_url.s)
        /\ result[1].videoId # None

\* a listing failure has been answered
C8_Witness ==
    /\ Done
    /\ RaisedAt("list_transcripts")
    /\ response[1].statusCode = 400

----------------------------------------------------------------------------
(* C10: every dict get_transcript returns is either a success record
   (success true, transcript, non-null language, wordCount, videoTitle, the
   resolved videoId, no error field) or a failure record (success false, an
   error message, videoId the resolved id if known and null otherwise, no
   transcript field); handler answers 200 exactly for the success record and
   400 for the failure record. *)
C10_ResultIsTaggedOutcome ==
    Returned =>
        /\ IF result[1].success
           THEN /\ DOMAIN result[1] = {"success", "transcript", "videoTitle", "videoId",
                                       "language", "wordCount"}
                /\ result[1].language # None
                /\ result[1].wordCount \in Nat
                /\ result[1].videoId = extract_video_id(youtube_url.s)
                /\ result[1].videoId # None
           ELSE /\ DOMAIN result[1] = {"success", "error", "videoId"}
                /\ result[1].error # <<>>
                /\ result[1].videoId =
                       (IF youtube_url.t = "str"
                        THEN extract_video_id(youtube_url.s) ELSE None)
        /\ Done =>
               /\ response[1].body = result[1]
               /\ response[1].statusCode = (IF result[1].success THEN 200 ELSE 400)

\* a success and its 200 answer
C10_Witness ==
    /\ Done
    /\ Returned
    /\ result[1].success
    /\ response[1].statusCode = 200
    /\ result[1].wordCount = 3

====
